---- MODULE Spec2Model ----
(***************************************************************************)
(* Creative Direction step of the project-intake form: the persisted form  *)
(* state store, the vision textarea with its AI generate/enhance hook and  *)
(* single-slot undo, the file uploader, and the HTTP client wrappers       *)
(* (uploadFile, uploadFiles, generateCreativeVision, feelingLucky,         *)
(* enhanceVision).                                                         *)
(*                                                                         *)
(* Text is a sequence of tokens; each token stands for a fixed block of    *)
(* characters, so that lengths are the real character counts and the       *)
(* 1400-character limit is the program's own.  An optional value (string   *)
(* | null, object | undefined) is the empty sequence or a one-element      *)
(* sequence.                                                               *)
(***************************************************************************)
EXTENDS Integers, Sequences, FiniteSets, TLC

VARIABLES
    mounted,            \* CreativeDirectionContent has run its mount effect
    apiConfig,          \* the memoised api configuration of the form
    store,              \* creativeDirectionState of the zustand store
    previousVision,     \* VisionTextarea: useState<string | null>
    isLoading,          \* useCreativeVisionEnhancer: useState(false)
    error,              \* useCreativeVisionEnhancer: useState<string | null>
    previousVisionRef,  \* useCreativeVisionEnhancer: useRef<string | null>
    ai,                 \* handleFeelingLucky / handleEnhance calls awaiting their response
    speech,             \* useSpeechRecognition: its state and refs
    recognitions,       \* the SpeechRecognition instances that have not ended
    selections,         \* handleFileSelect invocations still running
    uploadingFiles,     \* FileUploader: useState<Map<string, FileUploadState>>
    clock,              \* Date.now()
    issued,             \* the uploads FileUploader handed to fetch
    alerts,             \* the alert() calls of FileUploader
    net,                \* requests handed to fetch by direct callers of the services
    batch,              \* the uploadFiles call in progress
    hist                \* history of the operations applied (observation only)

visionVars ==
    <<previousVision, isLoading, error, previousVisionRef, ai, speech, recognitions>>
filesVars  == <<selections, uploadingFiles, clock, issued, alerts>>
clientVars == <<net, batch>>
vars == <<mounted, apiConfig, store, visionVars, filesVars, clientVars, hist>>

-----------------------------------------------------------------------------
(* Optional values *)

None == <<>>
Some(x) == <<x>>
IsSome(o) == o /= <<>>
The(o) == o[1]

-----------------------------------------------------------------------------
(* Text *)

MAX_CHARACTERS == 1400

\* "K" is a block of MAX_CHARACTERS - 2 non-blank characters, "sp" one blank.
CharLen(tok) == IF tok = "K" THEN MAX_CHARACTERS - 2 ELSE 1

RECURSIVE StrLen(_)
StrLen(s) == IF s = <<>> THEN 0 ELSE CharLen(Head(s)) + StrLen(Tail(s))

RECURSIVE TrimStart(_)
TrimStart(s) == IF s /= <<>> /\ Head(s) = "sp" THEN TrimStart(Tail(s)) ELSE s

RECURSIVE TrimEnd(_)
TrimEnd(s) ==
    IF s /= <<>> /\ s[Len(s)] = "sp" THEN TrimEnd(SubSeq(s, 1, Len(s) - 1)) ELSE s

\* String.prototype.trim
Trim(s) == TrimEnd(TrimStart(s))

\* !value.trim()
IsBlank(s) == Trim(s) = <<>>

\* Texts a user can leave in the textarea by one edit (typing, pasting, deleting).
TypedTexts == { <<>>, <<"sp">>, <<"a">>, <<"K", "a", "b">>, <<"K", "a", "b", "a">> }

\* Texts the creative-vision endpoint can return as data.vision.
AiTexts == { <<>>, <<"b">>, <<"K", "a", "b", "a">> }

-----------------------------------------------------------------------------
(* Form state store *)

\* {} as Record<string, string>
EmptyMap == [k \in {} |-> <<>>]

DEFAULT_STATE ==
    [trustSquad |-> FALSE, vision |-> <<>>, uploadedFiles |-> <<>>,
     fileDescriptions |-> EmptyMap]

\* A merge that starts from the defaults instead of the current state.
updateCreativeDirectionState_overDefaults(state, updates) ==
    [k \in DOMAIN state |->
        IF k \in DOMAIN updates THEN updates[k]
        ELSE [trustSquad |-> FALSE, vision |-> <<>>, uploadedFiles |-> <<>>,
              fileDescriptions |-> [x \in {} |-> <<>>]][k]]

\* A merge that also merges the descriptions key by key.
updateCreativeDirectionState_deep(state, updates) ==
    [k \in DOMAIN state |->
        IF k \notin DOMAIN updates THEN state[k]
        ELSE IF k = "fileDescriptions"
        THEN [id \in DOMAIN state[k] \cup DOMAIN updates[k] |->
                 IF id \in DOMAIN updates[k] THEN updates[k][id] ELSE state[k][id]]
        ELSE updates[k]]

\* { ...state.creativeDirectionState, ...updates }
updateCreativeDirectionState(state, updates) ==
    [k \in DOMAIN state |-> IF k \in DOMAIN updates THEN updates[k] ELSE state[k]]

\* A reset that empties the vision only.
resetCreativeDirectionState_visionOnly == [store EXCEPT !.vision = <<>>]

resetCreativeDirectionState == DEFAULT_STATE

setCreativeDirectionState(newState) == newState

-----------------------------------------------------------------------------
(* Creative Vision API service *)

DEFAULT_VISION_ENDPOINT == "/api/creative-direction/creative-vision"
CustomVisionEndpoint == "/custom/creative-vision"

\* What fetch and response.json() can produce for one request.
Unparsable == [parse |-> "fail", error |-> None, data |-> None]
JsonNull == [parse |-> "null", error |-> None, data |-> None]
JsonObj(err, data) == [parse |-> "obj", error |-> err, data |-> data]

Rejects(kind) == [fetch |-> kind, ok |-> FALSE, body |-> Unparsable]
Responds(ok, body) == [fetch |-> "response", ok |-> ok, body |-> body]

VisionOutcomes ==
    { Rejects("Error"), Rejects("other"),
      Responds(FALSE, JsonObj(Some("Server says no"), None)),
      Responds(FALSE, JsonObj(Some(""), None)),
      Responds(FALSE, JsonObj(None, None)),
      Responds(FALSE, Unparsable),
      Responds(FALSE, JsonNull),
      Responds(TRUE, Unparsable),
      Responds(TRUE, JsonNull),
      Responds(TRUE, JsonObj(None, None)) }
    \cup { Responds(TRUE, JsonObj(None, Some([vision |-> v]))) : v \in AiTexts }

Resolved(data, err) == [settled |-> "resolved", data |-> data, error |-> err]
Rejected == [settled |-> "rejected", data |-> None, error |-> None]

\* config.creativeVisionEndpoint || DEFAULT_ENDPOINT
VisionEndpoint(config) ==
    IF IsSome(config.creativeVisionEndpoint)
    THEN The(config.creativeVisionEndpoint) ELSE DEFAULT_VISION_ENDPOINT

\* The try/catch of generateCreativeVision, for one outcome of fetch and json().
generateCreativeVision(o) ==
    IF o.fetch = "Error" THEN Resolved(None, Some("Failed to fetch"))
    ELSE IF o.fetch = "other"
    THEN Resolved(None, Some("Failed to generate creative vision"))
    ELSE IF ~o.ok
    THEN LET errorData ==
                 IF o.body.parse = "fail" THEN JsonObj(None, None) ELSE o.body
         IN  IF errorData.parse = "null"
             THEN Resolved(None, Some("Cannot read properties of null"))
             ELSE IF IsSome(errorData.error) /\ The(errorData.error) /= ""
             THEN Resolved(None, errorData.error)
             ELSE Resolved(None, Some("Request failed with status 500"))
    ELSE IF o.body.parse = "fail"
    THEN Resolved(None, Some("Unexpected token in JSON"))
    ELSE IF o.body.parse = "null"
    THEN Resolved(None, Some("Cannot read properties of null"))
    ELSE Resolved(o.body.data, None)

\* The body feelingLucky / enhanceVision hand to generateCreativeVision.
feelingLucky(config) ==
    [endpoint |-> VisionEndpoint(config), buttonType |-> "feelingLucky",
     currentVision |-> <<>>]

enhanceVision(currentVision, config) ==
    [endpoint |-> VisionEndpoint(config), buttonType |-> "enhance",
     currentVision |-> currentVision]

-----------------------------------------------------------------------------
(* Upload API service *)

DEFAULT_UPLOAD_ENDPOINT == "/api/creative-direction/upload"
CustomUploadEndpoint == "/custom/upload"

\* config.uploadEndpoint || DEFAULT_ENDPOINT
UploadEndpoint(config) ==
    IF IsSome(config.uploadEndpoint)
    THEN The(config.uploadEndpoint) ELSE DEFAULT_UPLOAD_ENDPOINT

\* What one suspension point of uploadFile hands back: the phase the call is
\* in next, the progress it reported, whether it called fetch, its result.
Continue(phase, progress, fetch) ==
    [phase |-> phase, progress |-> progress, fetch |-> fetch, result |-> None]
Settle(result) ==
    [phase |-> "settled", progress |-> None, fetch |-> FALSE, result |-> Some(result)]

\* await fileToBase64(file) with the rejection escaping to the caller.
EncodingStep_outsideTry(o) ==
    IF o = "loaded" THEN Continue("fetching", Some(10), TRUE)
    ELSE Settle(Rejected)

\* await fileToBase64(file); onProgress(10); fetch(...).  reader.onerror
\* rejects with the event, which is no Error.
EncodingStep(o) ==
    IF o = "loaded" THEN Continue("fetching", Some(10), TRUE)
    ELSE Settle(Resolved(None, Some("Failed to upload file")))

\* await fetch(...); onProgress(90); if (!response.ok) ...
FetchingStep(o) ==
    IF o.fetch = "Error" THEN Settle(Resolved(None, Some("Failed to fetch")))
    ELSE IF o.fetch = "other" THEN Settle(Resolved(None, Some("Failed to upload file")))
    ELSE Continue(IF o.ok THEN "parsing" ELSE "errorBody", Some(90), FALSE)

\* await response.json().catch(() => ({})) and the error result
ErrorBodyStep(body) ==
    LET errorData == IF body.parse = "fail" THEN JsonObj(None, None) ELSE body
    IN  IF errorData.parse = "null"
        THEN Settle(Resolved(None, Some("Cannot read properties of null")))
        ELSE IF IsSome(errorData.error) /\ The(errorData.error) /= ""
        THEN Settle(Resolved(None, errorData.error))
        ELSE Settle(Resolved(None, Some("Upload failed with status 500")))

\* await response.json(); onProgress(100); return { data: data.data, error: null }
\* A body of JSON null parses, so 100 is reported, and data.data then throws
\* into the catch.
ParsingStep(body) ==
    IF body.parse = "fail"
    THEN Settle(Resolved(None, Some("Unexpected token in JSON")))
    ELSE [phase |-> "settled", progress |-> Some(100), fetch |-> FALSE,
          result |-> Some(IF body.parse = "null"
                          THEN Resolved(None, Some("Cannot read properties of null"))
                          ELSE Resolved(body.data, None))]

InFlightPhases == {"encoding", "fetching", "errorBody", "parsing"}

\* uploadFile, from one suspension point to the next.
uploadFile(phase, o) ==
    CASE phase = "encoding"  -> EncodingStep(o)
      [] phase = "fetching"  -> FetchingStep(o)
      [] phase = "errorBody" -> ErrorBodyStep(o)
      [] phase = "parsing"   -> ParsingStep(o)

\* A browser File, with what the platform and the server will do with it:
\* the FileReader's outcome and the outcome of fetch and response.json().
File(name, size, encoding, response) ==
    [name |-> name, size |-> size,
     script |-> [encoding |-> encoding, response |-> response]]

\* What the suspension point `phase` of uploadFile(file) resumes with.
Outcome(file, phase) ==
    IF phase = "encoding" THEN file.script.encoding
    ELSE IF phase = "fetching" THEN file.script.response
    ELSE file.script.response.body

\* The success body of the upload endpoint: { data: { url, filename, key, size } }
Stored(name, size) == JsonObj(None, Some([filename |-> name, size |-> size]))

\* File sizes in bytes, as <<whole GiB, remaining bytes>>.
Bytes(n) == <<0, n>>
GiB(n) == <<n, 0>>
SizeGreater(a, b) == a[1] > b[1] \/ (a[1] = b[1] /\ a[2] > b[2])

\* uploadFiles: the files its loop calls uploadFile for when it is entered.
InitialStarts_all(n) == 1..n

InitialStarts(n) == IF n >= 1 THEN {1} ELSE {}

\* uploadFiles: a loop that gives up at the first failed upload.
LoopContinues_untilFailure(result) == result.error = None

\* uploadFiles: the loop goes on to the next file whatever the result was.
LoopContinues(result) == TRUE

MaxBatch == 3

\* uploadFiles(files, config, onFileProgress), entered.
uploadFiles(files) ==
    [files |-> files,
     phases |-> [i \in 1..Len(files) |->
                    IF i \in InitialStarts(Len(files)) THEN "encoding" ELSE "pending"],
     results |-> <<>>,
     progress |-> <<>>,
     fetched |-> <<>>,
     returned |-> IF Len(files) = 0 THEN "returned" ELSE "pending"]

\* uploadFiles resumed by the upload of files[i]: the progress callback, and
\* once uploadFile has settled, results.push(result) and the next iteration.
uploadFilesResume(b, i) ==
    LET st == uploadFile(b.phases[i], Outcome(b.files[i], b.phases[i]))
        n == Len(b.files)
        settled == st.phase = "settled"
        threw == settled /\ The(st.result).settled = "rejected"
        last == i = n \/ (settled /\ ~threw /\ ~LoopContinues(The(st.result)))
    IN  [b EXCEPT
            !.phases = [j \in 1..n |->
                           IF j = i THEN st.phase
                           ELSE IF settled /\ ~threw /\ ~last /\ j = i + 1
                                   /\ b.phases[j] = "pending"
                           THEN "encoding" ELSE b.phases[j]],
            !.results = IF settled /\ ~threw THEN Append(@, The(st.result)) ELSE @,
            !.progress = IF IsSome(st.progress)
                         THEN Append(@, <<i, The(st.progress)>>) ELSE @,
            !.fetched = IF st.fetch THEN Append(@, i) ELSE @,
            !.returned = IF threw THEN "rejected"
                         ELSE IF settled /\ last THEN "returned" ELSE @]

-----------------------------------------------------------------------------
(* Observation: the last operation applied to the vision, the vision an AI  *)
(* replacement overwrote, and the undo invocations since that replacement.  *)

MaxUndosCounted == 2

HistOther == [hist EXCEPT !.op = "other", !.v0 = None, !.arg = None]
HistAi(v0) ==
    [op |-> "ai", v0 |-> Some(v0), arg |-> None, undos |-> 0, aiSeen |-> TRUE]
\* An operation on the whole store: the vision it found is kept.
HistStore(op) ==
    [hist EXCEPT !.op = op, !.v0 = Some(store.vision), !.arg = None]
HistReset ==
    [hist EXCEPT !.op = "reset", !.v0 = Some(store.vision),
                 !.arg = IF hist.op = "reset" THEN Some(<<"again">>) ELSE None]
HistCall(op, currentVision) ==
    [hist EXCEPT !.op = op, !.v0 = None, !.arg = Some(currentVision)]
HistUndo ==
    [hist EXCEPT !.op = IF hist.op = "ai" THEN "undoAfterAi" ELSE "undo",
                 !.v0 = IF hist.op = "ai" THEN hist.v0 ELSE None,
                 !.arg = None,
                 !.undos = IF hist.undos < MaxUndosCounted
                           THEN hist.undos + 1 ELSE hist.undos]

-----------------------------------------------------------------------------
(* Container: CreativeDirectionContent *)

\* A vision change that rebuilds the state around the new vision.
handleVisionChange_rebuilds(state, vision) ==
    [trustSquad |-> state.trustSquad, vision |-> vision, uploadedFiles |-> <<>>,
     fileDescriptions |-> state.fileDescriptions]

\* updateCreativeDirectionState({ vision })
handleVisionChange(state, vision) ==
    updateCreativeDirectionState(state, [vision |-> vision])

hasContent ==
    \/ store.trustSquad
    \/ StrLen(Trim(store.vision)) > 0
    \/ Len(store.uploadedFiles) > 0

canContinue_ignoresFlag(isContinueDisabled) == store.trustSquad \/ hasContent

canContinue(isContinueDisabled) ==
    IF isContinueDisabled THEN FALSE ELSE store.trustSquad \/ hasContent

\* VisionTextarea and FileUploader are rendered only while trustSquad is off.
ChildrenShown == mounted /\ ~store.trustSquad

\* The children's local state is dropped when they unmount; calls still
\* awaiting a response keep running against the callbacks they captured.
Orphaned(calls) == [i \in DOMAIN calls |-> [calls[i] EXCEPT !.orphan = TRUE]]

-----------------------------------------------------------------------------
(* useCreativeVisionEnhancer, as wired by VisionTextarea *)

MaxAi == 2

AiCall(body, value) == [body |-> body, value |-> value, orphan |-> FALSE]

\* handleFeelingLucky without the check of apiConfig.creativeVisionEndpoint.
handleFeelingLucky_unguarded(config, value) ==
    /\ Len(ai) < MaxAi
    /\ isLoading' = TRUE
    /\ error' = None
    /\ ai' = Append(ai, AiCall(feelingLucky(config), value))

\* handleFeelingLucky; `value` is the vision of the render whose
\* onVisionChange the handler closed over.
handleFeelingLucky(config, value) ==
    IF ~IsSome(config.creativeVisionEndpoint)
    THEN /\ error' = Some("Creative vision endpoint not configured")
         /\ UNCHANGED <<isLoading, ai>>
    ELSE /\ Len(ai) < MaxAi
         /\ isLoading' = TRUE
         /\ error' = None
         /\ ai' = Append(ai, AiCall(feelingLucky(config), value))

\* handleEnhance without the check of currentVision.trim().
handleEnhance_noBlankCheck(config, currentVision, value) ==
    IF ~IsSome(config.creativeVisionEndpoint)
    THEN /\ error' = Some("Creative vision endpoint not configured")
         /\ UNCHANGED <<isLoading, ai>>
    ELSE /\ Len(ai) < MaxAi
         /\ isLoading' = TRUE
         /\ error' = None
         /\ ai' = Append(ai, AiCall(enhanceVision(currentVision, config), value))

\* handleEnhance(currentVision)
handleEnhance(config, currentVision, value) ==
    IF ~IsSome(config.creativeVisionEndpoint)
    THEN /\ error' = Some("Creative vision endpoint not configured")
         /\ UNCHANGED <<isLoading, ai>>
    ELSE IF IsBlank(currentVision)
    THEN /\ error' = Some("No vision to enhance")
         /\ UNCHANGED <<isLoading, ai>>
    ELSE /\ Len(ai) < MaxAi
         /\ isLoading' = TRUE
         /\ error' = None
         /\ ai' = Append(ai, AiCall(enhanceVision(currentVision, config), value))

RemoveAt(seq, i) == SubSeq(seq, 1, i - 1) \o SubSeq(seq, i + 1, Len(seq))

\* VisionTextarea's onVisionChange: setPreviousVision(value); onChange(newVision)
onVisionChange(call, newVision) ==
    /\ previousVision' = IF call.orphan THEN previousVision ELSE Some(call.value)
    /\ store' = handleVisionChange(store, newVision)
    /\ hist' = HistAi(store.vision)

\* The rest of handleFeelingLucky / handleEnhance once the response is in.
AiResolve(i, o) ==
    LET call == ai[i]
        response == generateCreativeVision(o)
    IN  /\ ai' = RemoveAt(ai, i)
        /\ isLoading' = IF call.orphan THEN isLoading ELSE FALSE
        /\ IF IsSome(response.error)
           THEN /\ error' = IF call.orphan THEN error ELSE response.error
                /\ hist' = HistOther
                /\ UNCHANGED <<store, previousVision, previousVisionRef>>
           ELSE IF IsSome(response.data) /\ The(response.data).vision /= <<>>
           THEN /\ previousVisionRef' =
                       IF call.orphan THEN previousVisionRef
                       ELSE IF call.body.buttonType = "feelingLucky"
                       THEN Some(<<>>) ELSE Some(call.body.currentVision)
                /\ onVisionChange(call, The(response.data).vision)
                /\ UNCHANGED error
           ELSE /\ hist' = HistOther
                /\ UNCHANGED <<store, previousVision, previousVisionRef, error>>

-----------------------------------------------------------------------------
(* VisionTextarea *)

\* handleUndo without setPreviousVision(null).
handleUndo_keepsSlot ==
    IF previousVision /= None
    THEN /\ store' = handleVisionChange(store, The(previousVision))
         /\ UNCHANGED previousVision
    ELSE UNCHANGED <<store, previousVision>>

handleUndo ==
    IF previousVision /= None
    THEN /\ store' = handleVisionChange(store, The(previousVision))
         /\ previousVision' = None
    ELSE UNCHANGED <<store, previousVision>>

handleTextChange(newValue) ==
    IF StrLen(newValue) <= MAX_CHARACTERS
    THEN store' = handleVisionChange(store, newValue)
    ELSE UNCHANGED store

\* `value` is the vision of the render whose handler the speech session holds.
appended(value, transcript) ==
    IF value /= <<>> THEN value \o <<"sp">> \o transcript ELSE transcript

\* handleSpeechTranscript without the comparison against MAX_CHARACTERS.
handleSpeechTranscript_unchecked(value, transcript) ==
    store' = handleVisionChange(store, appended(value, transcript))

handleSpeechTranscript(value, transcript) ==
    IF StrLen(appended(value, transcript)) <= MAX_CHARACTERS
    THEN store' = handleVisionChange(store, appended(value, transcript))
    ELSE UNCHANGED store

-----------------------------------------------------------------------------
(* useSpeechRecognition, as used by SpeechToTextButton *)

MaxSessions == 2

\* A SpeechRecognitionResult: results[i][0].transcript and results[i].isFinal.
Segment(isFinal, transcript) == [isFinal |-> isFinal, transcript |-> transcript]

\* A SpeechRecognitionEvent; resultIndex counts from 0 as in the browser.
SpeechEvent(results, resultIndex) ==
    [results |-> results, resultIndex |-> resultIndex]

SpeechEvents ==
    { SpeechEvent(<<Segment(FALSE, <<"a">>)>>, 0),
      SpeechEvent(<<Segment(TRUE, <<"a">>)>>, 0),
      SpeechEvent(<<Segment(TRUE, <<"a">>), Segment(FALSE, <<"b">>)>>, 1),
      SpeechEvent(<<Segment(TRUE, <<"a">>), Segment(TRUE, <<"b">>)>>, 0),
      SpeechEvent(<<Segment(TRUE, <<"a">>), Segment(TRUE, <<"b">>)>>, 1),
      SpeechEvent(<<Segment(TRUE, <<"b">>), Segment(FALSE, <<"a">>)>>, 0),
      SpeechEvent(<<Segment(TRUE, <<>>), Segment(FALSE, <<"a">>)>>, 0),
      SpeechEvent(<<Segment(TRUE, <<"sp">>)>>, 0) }

\* The loop of onresult from index i (counted from 1 here): the transcripts
\* of the results whose isFinal is `isFinal`, concatenated.
RECURSIVE Collect(_, _, _)
Collect(results, i, isFinal) ==
    IF i > Len(results)
    THEN <<>>
    ELSE (IF results[i].isFinal = isFinal THEN results[i].transcript ELSE <<>>)
         \o Collect(results, i + 1, isFinal)

finalTranscript(event) == Collect(event.results, event.resultIndex + 1, TRUE)
interimTranscript(event) == Collect(event.results, event.resultIndex + 1, FALSE)

\* finalTranscript || interimTranscript
currentTranscript(event) ==
    IF finalTranscript(event) /= <<>>
    THEN finalTranscript(event)
    ELSE interimTranscript(event)

fullTranscript(initial, event) ==
    IF initial /= <<>>
    THEN initial \o <<"sp">> \o currentTranscript(event)
    ELSE currentTranscript(event)

\* onresult calling onTranscript for whatever text the event carries.
CallsOnTranscript_anyText(event) == currentTranscript(event) /= <<>>

\* if (finalTranscript) onTranscript?.(fullTranscript)
CallsOnTranscript(event) == finalTranscript(event) /= <<>>

\* The state and refs of one mounted hook; `created` numbers the instances.
HookState(isSupported, created) ==
    [isSupported |-> isSupported, isListening |-> FALSE, transcript |-> <<>>,
     recognitionRef |-> None, initialTranscriptRef |-> <<>>, created |-> created]

\* The instance startListening creates, with the handlers of the render it
\* was called from: onTranscript leads to handleSpeechTranscript over `value`.
Recognition(value) ==
    [phase |-> "starting", value |-> value, orphan |-> FALSE, initial |-> <<>>]

Active == { "starting", "recognizing", "stopping" }

\* recognition.stop() and recognition.abort(), on an instance that may have ended.
stop(id) ==
    IF id \in DOMAIN recognitions /\ recognitions[id].phase \in {"starting", "recognizing"}
    THEN [recognitions EXCEPT ![id].phase = "stopping"]
    ELSE recognitions

abort(id) ==
    IF id \in DOMAIN recognitions /\ recognitions[id].phase \in Active
    THEN [recognitions EXCEPT ![id].phase = "aborting"]
    ELSE recognitions

\* startListening of a hook whose refs are those of h.
startListening(h, value) ==
    IF ~h.isSupported
    THEN /\ speech' = h
         /\ UNCHANGED recognitions
    ELSE /\ speech' = [h EXCEPT !.recognitionRef = Some(h.created + 1),
                                !.created = h.created + 1]
         /\ recognitions' = [id \in DOMAIN recognitions \cup {h.created + 1} |->
                                IF id = h.created + 1
                                THEN Recognition(value)
                                ELSE recognitions[id]]

stopListening ==
    /\ recognitions' = IF speech.recognitionRef /= None
                       THEN stop(The(speech.recognitionRef))
                       ELSE recognitions
    /\ UNCHANGED speech

toggleListening(initialTranscript, value) ==
    IF speech.isListening
    THEN stopListening
    ELSE startListening([speech EXCEPT !.initialTranscriptRef = initialTranscript],
                        value)

resetTranscript ==
    /\ speech' = [speech EXCEPT !.transcript = <<>>, !.initialTranscriptRef = <<>>]
    /\ UNCHANGED recognitions

\* The handlers startListening installs on instance id.  An orphan is an
\* instance of a hook that has unmounted: its setState calls do nothing and
\* its refs are the unmounted hook's.
onstart(id) ==
    speech' = IF recognitions[id].orphan
              THEN speech
              ELSE [speech EXCEPT !.isListening = TRUE]

InitialTranscript(id) ==
    IF recognitions[id].orphan
    THEN recognitions[id].initial
    ELSE speech.initialTranscriptRef

\* SpeechToTextButton's onTranscript, with VisionTextarea's handler behind it.
onTranscript(value, transcript) ==
    IF Trim(transcript) /= <<>>
    THEN handleSpeechTranscript(value, transcript)
    ELSE UNCHANGED store

onresult(id, event) ==
    /\ speech' = IF recognitions[id].orphan
                 THEN speech
                 ELSE [speech EXCEPT
                          !.transcript = fullTranscript(InitialTranscript(id), event)]
    /\ IF CallsOnTranscript(event)
       THEN onTranscript(recognitions[id].value,
                         fullTranscript(InitialTranscript(id), event))
       ELSE UNCHANGED store

onerror(id) ==
    speech' = IF recognitions[id].orphan
              THEN speech
              ELSE [speech EXCEPT !.isListening = FALSE]

onend(id) ==
    speech' = IF recognitions[id].orphan
              THEN speech
              ELSE [speech EXCEPT !.isListening = FALSE,
                                  !.initialTranscriptRef = <<>>]

\* The unmount cleanup aborts the instance in recognitionRef; the hook's state
\* goes with the component, and the instances left keep the unmounted hook's
\* refs.
cleanup ==
    LET left == IF speech.recognitionRef /= None
                THEN abort(The(speech.recognitionRef))
                ELSE recognitions
    IN  /\ recognitions' =
               [id \in DOMAIN left |->
                   IF left[id].orphan
                   THEN left[id]
                   ELSE [left[id] EXCEPT !.orphan = TRUE,
                                         !.initial = speech.initialTranscriptRef]]
        /\ speech' = HookState(speech.isSupported, speech.created)

-----------------------------------------------------------------------------
(* FileUploader *)

ALLOWED_EXTENSIONS ==
    { <<".", e>> : e \in {"jpg", "jpeg", "png", "gif", "webp", "svg", "pdf",
                          "doc", "docx", "psd", "ai", "eps"} }
MAX_FILE_SIZE == GiB(2)
MAX_FILES == 5

\* File names are sequences of pieces: "." is the dot, every other piece
\* stands for a run of UTF-16 code units without a dot.  toLowerCase maps a
\* piece to its lower-case pieces; U+0130 lower-cases to two code units.
LowerPiece(c) ==
    CASE c = "LOGO" -> <<"logo">>
      [] c = "PNG" -> <<"png">>
      [] c = "I_dotted" -> <<"i", "dot_above">>
      [] OTHER -> <<c>>

RECURSIVE toLowerCase(_)
toLowerCase(name) ==
    IF name = <<>> THEN <<>> ELSE LowerPiece(Head(name)) \o toLowerCase(Tail(name))

\* String.prototype.lastIndexOf, 0-based, -1 when absent
lastIndexOf(name, c) ==
    LET at == { i \in DOMAIN name : name[i] = c }
    IN  IF at = {} THEN -1 ELSE (CHOOSE i \in at : \A j \in at : j <= i) - 1

\* String.prototype.substring(start): a negative start counts as 0
substring(name, start) ==
    SubSeq(name, (IF start < 0 THEN 0 ELSE start) + 1, Len(name))

getFileExtension(filename) ==
    substring(toLowerCase(filename), lastIndexOf(filename, "."))

\* An extension test that looks for an allowed extension anywhere in the name.
isAllowedExtension_anywhere(filename) ==
    LET low == toLowerCase(filename)
    IN  \E i \in 1..(Len(low) - 1) : <<low[i], low[i + 1]>> \in ALLOWED_EXTENSIONS

isAllowedExtension(filename) == getFileExtension(filename) \in ALLOWED_EXTENSIONS

\* The two checks of the loop body of handleFileSelect, and the alert of a
\* file that fails one.
Validates(file) ==
    /\ isAllowedExtension(file.name)
    /\ ~SizeGreater(file.size, MAX_FILE_SIZE)

Alert(kind, name) == [kind |-> kind, name |-> name]

AlertOf(file) ==
    IF ~isAllowedExtension(file.name) THEN Alert("type", file.name)
    ELSE Alert("size", file.name)

\* The `continue`s of the loop: the files from the first that passes both checks.
RECURSIVE SkipInvalid(_)
SkipInvalid(queue) ==
    IF queue = <<>> THEN queue
    ELSE IF Validates(Head(queue)) THEN queue
    ELSE SkipInvalid(Tail(queue))

Skipped(queue) ==
    { AlertOf(queue[i]) : i \in 1..(Len(queue) - Len(SkipInvalid(queue))) }

\* `${Date.now()}-${file.name}`
FileId(now, file) == <<now, file.name>>

UploadedFile(fileId, data) ==
    [id |-> fileId, filename |-> data.filename, size |-> data.size]

FileUploadState(progress, uploading, err) ==
    [progress |-> progress, uploading |-> uploading, error |-> err]

MapSet(map, k, v) == [x \in DOMAIN map \cup {k} |-> IF x = k THEN v ELSE map[x]]
\* A delete that leaves the entry in the map.
MapDelete_keeps(map, k) == map

MapDelete(map, k) == [x \in DOMAIN map \ {k} |-> map[x]]

Ids(files) == { files[i].id : i \in DOMAIN files }
Filter(files, fileId) ==
    LET keep == { i \in DOMAIN files : files[i].id /= fileId }
        F[i \in 0..Len(files)] ==
            IF i = 0 THEN <<>>
            ELSE IF i \in keep THEN Append(F[i - 1], files[i]) ELSE F[i - 1]
    IN  F[Len(files)]

\* Date.now(): every read is later than the one before (a selection and the
\* uploads it awaits take more than a millisecond).
MaxClock == 2
Now == clock + 1

\* One handleFileSelect invocation suspended in `await uploadFile(file, ...)`:
\* the `files` it closed over, the files of the selection from the one being
\* uploaded on, where that upload is, and whether FileUploader was unmounted.
Selection(files, queue, fileId, selected) ==
    [files |-> files, queue |-> queue, phase |-> "encoding", fileId |-> fileId,
     orphan |-> FALSE, present |-> Len(files), selected |-> selected]

\* The loop of handleFileSelect entering the iteration of the next file that
\* passes the checks, or ending.  `sel` is the invocation with its remaining
\* files (its fileId is empty before its first iteration), `rest` the other
\* invocations, `now` what Date.now() returns.
StartNext(sel, rest, now, map) ==
    LET queue == SkipInvalid(sel.queue)
    IN  /\ alerts' = alerts \cup Skipped(sel.queue)
        /\ IF queue = <<>>
           THEN /\ selections' = rest
                /\ uploadingFiles' = map
                /\ clock' = IF sel.fileId = <<>> THEN now ELSE clock
           ELSE LET fileId == FileId(now, Head(queue))
                IN  /\ clock' = now
                    /\ selections' =
                           Append(rest, [sel EXCEPT !.queue = queue,
                                                    !.phase = "encoding",
                                                    !.fileId = fileId])
                    /\ uploadingFiles' =
                           IF sel.orphan THEN map
                           ELSE MapSet(map, fileId, FileUploadState(0, TRUE, None))

\* handleFileSelect(selectedFiles) up to its first await
handleFileSelect(files, newFiles) ==
    LET totalFiles == Len(files) + Len(newFiles)
    IN  IF totalFiles > MAX_FILES
        THEN /\ alerts' = alerts \cup {Alert("count", <<>>)}
             /\ clock' = Now
             /\ UNCHANGED <<selections, uploadingFiles, issued, store>>
        ELSE /\ StartNext(Selection(files, newFiles, <<>>, Len(newFiles)),
                          selections, Now, uploadingFiles)
             /\ UNCHANGED <<issued, store>>

\* handleFileSelect resumed by the upload of the file at the head of its queue
handleFileSelectResume(k) ==
    LET sel == selections[k]
        rest == RemoveAt(selections, k)
        file == Head(sel.queue)
        st == uploadFile(sel.phase, Outcome(file, sel.phase))
        \* the onProgress callback
        reported ==
            IF IsSome(st.progress) /\ ~sel.orphan /\ sel.fileId \in DOMAIN uploadingFiles
            THEN MapSet(uploadingFiles, sel.fileId,
                        [uploadingFiles[sel.fileId] EXCEPT !.progress = The(st.progress)])
            ELSE uploadingFiles
        failed(map, message) ==
            IF ~sel.orphan /\ sel.fileId \in DOMAIN map
            THEN MapSet(map, sel.fileId,
                        [map[sel.fileId] EXCEPT !.uploading = FALSE, !.error = Some(message)])
            ELSE map
    IN  /\ issued' = IF st.fetch
                     THEN issued \cup {[name |-> file.name, size |-> file.size,
                                        present |-> sel.present,
                                        selected |-> sel.selected]}
                     ELSE issued
        /\ IF st.phase /= "settled"
           THEN /\ selections' = [selections EXCEPT ![k].phase = st.phase]
                /\ uploadingFiles' = reported
                /\ UNCHANGED <<store, clock, alerts>>
           ELSE LET response == The(st.result)
                    next == [sel EXCEPT !.queue = Tail(sel.queue)]
                IN  LET now == Now IN
                      IF response.settled = "rejected"
                      THEN /\ StartNext(next, rest, now, failed(reported, "Upload failed"))
                           /\ UNCHANGED store
                      ELSE IF (IsSome(response.error) /\ The(response.error) /= "")
                              \/ response.data = None
                      THEN /\ StartNext(next, rest, now,
                                  failed(reported,
                                         IF IsSome(response.error) /\ The(response.error) /= ""
                                         THEN The(response.error) ELSE "Upload failed"))
                           /\ UNCHANGED store
                      ELSE /\ store' = updateCreativeDirectionState(store,
                                  [uploadedFiles |->
                                      Append(sel.files,
                                             UploadedFile(sel.fileId, The(response.data)))])
                           /\ StartNext(next, rest, now,
                                  IF sel.orphan THEN reported
                                  ELSE MapDelete(reported, sel.fileId))

\* handleRemoveFile without the update of the descriptions.
handleRemoveFile_keepsDescription(fileId) ==
    store' = updateCreativeDirectionState(store,
                 [uploadedFiles |-> Filter(store.uploadedFiles, fileId)])

\* handleRemoveFile: onFilesChange(files.filter(...)); onDescriptionsChange(...)
handleRemoveFile(fileId) ==
    store' = updateCreativeDirectionState(
                 updateCreativeDirectionState(store,
                     [uploadedFiles |-> Filter(store.uploadedFiles, fileId)]),
                 [fileDescriptions |-> MapDelete(store.fileDescriptions, fileId)])

handleDescriptionChange(fileId, description) ==
    store' = updateCreativeDirectionState(store,
                 [fileDescriptions |-> MapSet(store.fileDescriptions, fileId, description)])

handleRemoveUploading(fileId) == uploadingFiles' = MapDelete(uploadingFiles, fileId)

-----------------------------------------------------------------------------
(* Initial state *)

Config(vision, upload) == [creativeVisionEndpoint |-> vision, uploadEndpoint |-> upload]

FormConfigs ==
    { Config(None, None), Config(Some(CustomVisionEndpoint), None) }

HistInit ==
    [op |-> "other", v0 |-> None, arg |-> None, undos |-> 0, aiSeen |-> FALSE]

StateInit ==
    /\ store = DEFAULT_STATE
    /\ previousVision = None
    /\ isLoading = FALSE
    /\ error = None
    /\ previousVisionRef = None
    /\ ai = <<>>
    /\ recognitions = <<>>
    /\ selections = <<>>
    /\ uploadingFiles = EmptyMap
    /\ clock = 0
    /\ issued = {}
    /\ alerts = {}
    /\ net = <<>>
    /\ batch = None
    /\ hist = HistInit

CommonInit == StateInit /\ speech = HookState(TRUE, 0)

FormInit == mounted = FALSE /\ CommonInit

-----------------------------------------------------------------------------
(* The form's operations on the vision *)

\* The mount effect: setCreativeDirectionState({ ...DEFAULT_STATE, ...initialState })
Mount(initialState) ==
    /\ ~mounted
    /\ mounted' = TRUE
    /\ store' = IF IsSome(initialState)
                THEN setCreativeDirectionState(
                         updateCreativeDirectionState(DEFAULT_STATE, The(initialState)))
                ELSE store
    /\ hist' = HistOther
    /\ UNCHANGED <<apiConfig, visionVars, filesVars, clientVars>>

handleTrustSquadChange(enabled) ==
    /\ mounted
    /\ store' = updateCreativeDirectionState(store, [trustSquad |-> enabled])
    /\ IF enabled /\ ~store.trustSquad
       THEN /\ previousVision' = None
            /\ isLoading' = FALSE
            /\ error' = None
            /\ previousVisionRef' = None
            /\ cleanup
            /\ ai' = Orphaned(ai)
            /\ selections' = Orphaned(selections)
            /\ uploadingFiles' = EmptyMap
            /\ UNCHANGED <<clock, issued, alerts>>
       ELSE UNCHANGED <<visionVars, filesVars>>
    /\ hist' = HistStore("trust")
    /\ UNCHANGED <<mounted, apiConfig, clientVars>>

\* handleClear that empties the vision and the files through a merge.
handleClear_merges ==
    /\ mounted
    /\ hasContent
    /\ store' = updateCreativeDirectionState(store,
                     [vision |-> <<>>, uploadedFiles |-> <<>>])
    /\ hist' = HistStore("clear")
    /\ UNCHANGED <<mounted, apiConfig, visionVars, filesVars, clientVars>>

handleClear ==
    /\ mounted
    /\ hasContent
    /\ store' = resetCreativeDirectionState
    /\ hist' = HistStore("clear")
    /\ UNCHANGED <<mounted, apiConfig, visionVars, filesVars, clientVars>>

TextChange(newValue) ==
    /\ ChildrenShown
    /\ handleTextChange(newValue)
    /\ hist' = HistCall("typed", newValue)
    /\ UNCHANGED <<mounted, apiConfig, visionVars, filesVars, clientVars>>

\* The "I'm Feeling Lucky" button is the one rendered while the vision is blank.
ClickFeelingLucky ==
    /\ ChildrenShown
    /\ IsBlank(store.vision)
    /\ handleFeelingLucky(apiConfig, store.vision)
    /\ hist' = HistCall("lucky", store.vision)
    /\ UNCHANGED <<mounted, apiConfig, store, previousVision, previousVisionRef,
                   speech, recognitions, filesVars, clientVars>>

\* onClick={() => handleEnhance(value)}, rendered while the vision is not blank.
ClickEnhance ==
    /\ ChildrenShown
    /\ ~IsBlank(store.vision)
    /\ handleEnhance(apiConfig, store.vision, store.vision)
    /\ hist' = HistCall("enhance", store.vision)
    /\ UNCHANGED <<mounted, apiConfig, store, previousVision, previousVisionRef,
                   speech, recognitions, filesVars, clientVars>>

\* The outcomes the form's requests are resolved with.
FormVisionOutcomes ==
    { Rejects("Error"), Responds(FALSE, JsonObj(None, None)),
      Responds(TRUE, JsonObj(None, None)) }
    \cup { Responds(TRUE, JsonObj(None, Some([vision |-> v]))) : v \in AiTexts }

AiResponse ==
    \E i \in DOMAIN ai : \E o \in FormVisionOutcomes :
        /\ AiResolve(i, o)
        /\ UNCHANGED <<mounted, apiConfig, speech, recognitions, filesVars, clientVars>>

\* The Undo button is disabled while a request is loading.  With the slot
\* empty no button is rendered and the handler, if invoked, does nothing.
Undo ==
    /\ ChildrenShown
    /\ ~isLoading
    /\ handleUndo
    /\ hist' = HistUndo
    /\ UNCHANGED <<mounted, apiConfig, isLoading, error, previousVisionRef, ai,
                   speech, recognitions, filesVars, clientVars>>

\* Caller-supplied initial states (a Partial<CreativeDirectionState>), all valid.
VisionSeeds == { None, Some([vision |-> <<"a">>]) }

VisionNext ==
    \/ \E seed \in VisionSeeds : Mount(seed)
    \/ \E enabled \in BOOLEAN : handleTrustSquadChange(enabled)
    \/ handleClear
    \/ \E t \in TypedTexts : TextChange(t)
    \/ ClickFeelingLucky
    \/ ClickEnhance
    \/ AiResponse
    \/ Undo

VisionInit == FormInit /\ apiConfig \in FormConfigs

VisionSpec == VisionInit /\ [][VisionNext]_vars

-----------------------------------------------------------------------------
(* The package's exports called directly: uploadFiles, feelingLucky,        *)
(* enhanceVision, and the handlers of useCreativeVisionEnhancer with any    *)
(* argument.  One of the three is exercised per run.                        *)

ClientConfigs ==
    { Config(None, None), Config(Some(CustomVisionEndpoint), Some(CustomUploadEndpoint)) }

ClientFile(n, encoding, response) == File(<<n>>, Bytes(1000), encoding, response)

ClientFiles ==
    { ClientFile("f1", "loaded", Responds(TRUE, Stored(<<"f1">>, Bytes(1000)))),
      ClientFile("f2", "loaded", Responds(TRUE, Stored(<<"f2">>, Bytes(1000)))),
      ClientFile("f3", "failed", Rejects("Error")),
      ClientFile("f4", "loaded", Rejects("Error")),
      ClientFile("f5", "loaded", Rejects("other")),
      ClientFile("f6", "loaded", Responds(FALSE, JsonObj(Some("File rejected"), None))),
      ClientFile("f7", "loaded", Responds(FALSE, Unparsable)),
      ClientFile("f8", "loaded", Responds(FALSE, JsonNull)),
      ClientFile("f9", "loaded", Responds(TRUE, Unparsable)),
      ClientFile("f10", "loaded", Responds(TRUE, JsonNull)),
      ClientFile("f11", "loaded", Responds(FALSE, JsonObj(Some(""), None))) }

Batches == UNION { [1..n -> ClientFiles] : n \in 0..MaxBatch }

\* Arguments handed to enhanceVision / handleEnhance.
ClientTexts == { <<>>, <<"sp">>, <<"a">> }

HookUntouched ==
    /\ ai = <<>>
    /\ error = None
    /\ hist = HistInit
    /\ store = DEFAULT_STATE

CallUploadFiles ==
    /\ batch = None
    /\ net = None
    /\ HookUntouched
    /\ \E files \in Batches : batch' = Some(uploadFiles(files))
    /\ UNCHANGED <<mounted, apiConfig, store, visionVars, filesVars, net, hist>>

UploadFilesResume ==
    /\ batch /= None
    /\ The(batch).returned = "pending"
    /\ \E i \in DOMAIN The(batch).files :
           /\ The(batch).phases[i] \in InFlightPhases
           /\ batch' = Some(uploadFilesResume(The(batch), i))
    /\ UNCHANGED <<mounted, apiConfig, store, visionVars, filesVars, net, hist>>

\* feelingLucky(config) or enhanceVision(currentVision, config): the request
\* is handed to fetch before the call first suspends.
CallService(fn, config, currentVision) ==
    /\ batch = None
    /\ HookUntouched
    /\ IF net = None THEN TRUE ELSE IsSome(The(net).result)
    /\ net' = Some([fn |-> fn,
                    config |-> config,
                    request |-> Some(IF fn = "feelingLucky" THEN feelingLucky(config)
                                     ELSE enhanceVision(currentVision, config)),
                    outcome |-> None,
                    result |-> None])
    /\ UNCHANGED <<mounted, apiConfig, store, visionVars, filesVars, batch, hist>>

ServiceResolve(o) ==
    /\ net /= None
    /\ The(net).result = None
    /\ net' = Some([The(net) EXCEPT !.outcome = Some(o),
                                    !.result = Some(generateCreativeVision(o))])
    /\ UNCHANGED <<mounted, apiConfig, store, visionVars, filesVars, batch, hist>>

HookFeelingLucky ==
    /\ batch = None
    /\ net = None
    /\ handleFeelingLucky(apiConfig, store.vision)
    /\ hist' = HistCall("lucky", store.vision)
    /\ UNCHANGED <<mounted, apiConfig, store, previousVision, previousVisionRef,
                   speech, recognitions, filesVars, clientVars>>

HookEnhance(currentVision) ==
    /\ batch = None
    /\ net = None
    /\ handleEnhance(apiConfig, currentVision, store.vision)
    /\ hist' = HistCall("enhance", currentVision)
    /\ UNCHANGED <<mounted, apiConfig, store, previousVision, previousVisionRef,
                   speech, recognitions, filesVars, clientVars>>

ClientNext ==
    \/ CallUploadFiles
    \/ UploadFilesResume
    \/ \E fn \in {"feelingLucky", "enhance"}, config \in ClientConfigs,
          currentVision \in ClientTexts : CallService(fn, config, currentVision)
    \/ \E o \in VisionOutcomes : ServiceResolve(o)
    \/ HookFeelingLucky
    \/ \E currentVision \in ClientTexts : HookEnhance(currentVision)
    \/ AiResponse

ClientInit == mounted = TRUE /\ CommonInit /\ apiConfig \in ClientConfigs

ClientSpec == ClientInit /\ [][ClientNext]_vars

-----------------------------------------------------------------------------
(* The form's operations on the reference files *)

UserFile(name, size, response) == File(name, size, "loaded", response)
Accepts(name, size) == Responds(TRUE, Stored(name, size))

Png == UserFile(<<"logo", ".", "png">>, Bytes(1000), Accepts(<<"logo", ".", "png">>, Bytes(1000)))
Pdf == UserFile(<<"brief", ".", "pdf">>, Bytes(2000), Accepts(<<"brief", ".", "pdf">>, Bytes(2000)))
UpperPng == UserFile(<<"LOGO", ".", "PNG">>, Bytes(1000), Accepts(<<"LOGO", ".", "PNG">>, Bytes(1000)))
DottedPng == UserFile(<<"I_dotted", ".", "png">>, Bytes(1000), Accepts(<<"I_dotted", ".", "png">>, Bytes(1000)))
Exe == UserFile(<<"logo", ".", "exe">>, Bytes(1000), Accepts(<<"logo", ".", "exe">>, Bytes(1000)))
PngExe == UserFile(<<"logo", ".", "png", ".", "exe">>, Bytes(1000),
                   Accepts(<<"logo", ".", "png", ".", "exe">>, Bytes(1000)))
NoDot == UserFile(<<"png">>, Bytes(1000), Accepts(<<"png">>, Bytes(1000)))
TooBig == UserFile(<<"big", ".", "psd">>, <<2, 1>>, Accepts(<<"big", ".", "psd">>, <<2, 1>>))
Largest == UserFile(<<"max", ".", "psd">>, GiB(2), Accepts(<<"max", ".", "psd">>, GiB(2)))
Refused == UserFile(<<"draft", ".", "doc">>, Bytes(1000),
                    Responds(FALSE, JsonObj(Some("File rejected"), None)))

SelectionPool ==
    { <<Png, Pdf>>,
      <<Exe, PngExe, TooBig, NoDot, UpperPng>>,
      <<Refused, DottedPng, Largest>> }

SeedFile(n) == [id |-> <<0, <<n>>>>, filename |-> <<n>>, size |-> Bytes(1000)]

FileSeeds ==
    { None,
      Some([uploadedFiles |-> <<SeedFile("s1"), SeedFile("s2"), SeedFile("s3")>>,
            fileDescriptions |-> [k \in {SeedFile("s1").id} |-> "d"]]) }

MaxSelections == 1

\* The drop zone and its input are rendered while files.length < MAX_FILES.
\* `running` bounds the invocations of handleFileSelect already under way.
FileSelectAmong(running, newFiles) ==
    /\ ChildrenShown
    /\ Len(store.uploadedFiles) < MAX_FILES
    /\ Len(selections) <= running
    /\ clock < MaxClock
    /\ handleFileSelect(store.uploadedFiles, newFiles)
    /\ hist' = HistOther
    /\ UNCHANGED <<mounted, apiConfig, visionVars, clientVars>>

FileSelect(newFiles) ==
    /\ ChildrenShown
    /\ Len(store.uploadedFiles) < MAX_FILES
    /\ Len(selections) < MaxSelections
    /\ clock < MaxClock
    /\ handleFileSelect(store.uploadedFiles, newFiles)
    /\ hist' = HistOther
    /\ UNCHANGED <<mounted, apiConfig, visionVars, clientVars>>

\* The server stores the file: the request gets an ok response whose body
\* carries the stored file's data.
Succeeds(file) ==
    /\ file.script.encoding = "loaded"
    /\ file.script.response.fetch = "response"
    /\ file.script.response.ok
    /\ file.script.response.body.parse = "obj"
    /\ file.script.response.body.data /= None

\* The step that ends a successful upload is kept with the list and the id
\* its invocation of handleFileSelect holds.
HistUpload(k) ==
    IF selections[k].phase = "parsing" /\ Succeeds(Head(selections[k].queue))
    THEN [hist EXCEPT !.op = "uploaded", !.v0 = None,
                      !.arg = Some([files |-> selections[k].files,
                                    fileId |-> selections[k].fileId])]
    ELSE HistOther

UploadProgress ==
    /\ \E k \in DOMAIN selections :
           /\ handleFileSelectResume(k)
           /\ hist' = HistUpload(k)
    /\ UNCHANGED <<mounted, apiConfig, visionVars, clientVars>>

RemoveFile ==
    /\ ChildrenShown
    /\ \E fileId \in Ids(store.uploadedFiles) : handleRemoveFile(fileId)
    /\ hist' = HistOther
    /\ UNCHANGED <<mounted, apiConfig, visionVars, filesVars, clientVars>>

DescriptionChange ==
    /\ ChildrenShown
    /\ \E fileId \in Ids(store.uploadedFiles), description \in {"d"} :
           handleDescriptionChange(fileId, description)
    /\ hist' = HistOther
    /\ UNCHANGED <<mounted, apiConfig, visionVars, filesVars, clientVars>>

RemoveUploading ==
    /\ ChildrenShown
    /\ \E fileId \in DOMAIN uploadingFiles :
           /\ ~uploadingFiles[fileId].uploading
           /\ handleRemoveUploading(fileId)
           /\ hist' = HistCall("dismiss", fileId)
    /\ UNCHANGED <<mounted, apiConfig, store, visionVars, selections, clock,
                   issued, alerts, clientVars>>

FilesNext ==
    \/ \E initialState \in FileSeeds : Mount(initialState)
    \/ \E newFiles \in SelectionPool : FileSelect(newFiles)
    \/ UploadProgress
    \/ RemoveFile
    \/ DescriptionChange
    \/ RemoveUploading
    \/ handleClear

FilesInit == FormInit /\ apiConfig = Config(None, None)

FilesSpec == FilesInit /\ [][FilesNext]_vars

-----------------------------------------------------------------------------
(* The container and the store: any caller-supplied initial state, the      *)
(* trust toggle, Clear, the store's reset called directly, and the edits    *)
(* the children make through the container's handlers.                      *)

SeedFiles(n) == [i \in 1..n |-> SeedFile(<<"s1", "s2", "s3", "s4", "s5", "s6">>[i])]

ContainerSeeds ==
    { None }
    \cup { Some([trustSquad |-> t, vision |-> v, uploadedFiles |-> SeedFiles(n),
                 fileDescriptions |-> [k \in (IF n >= 1 THEN {SeedFile("s1").id} ELSE {})
                                          |-> "d"]]) :
             t \in BOOLEAN, v \in {<<>>, <<"sp">>, <<"a">>}, n \in {0, 1, 5, 6} }

\* useCreativeDirectionStore().resetCreativeDirectionState()
Reset ==
    /\ store' = resetCreativeDirectionState
    /\ hist' = HistReset
    /\ UNCHANGED <<mounted, apiConfig, visionVars, filesVars, clientVars>>

ContainerNext ==
    \/ \E initialState \in ContainerSeeds : Mount(initialState)
    \/ \E enabled \in BOOLEAN : handleTrustSquadChange(enabled)
    \/ handleClear
    \/ Reset
    \/ \E newValue \in TypedTexts : TextChange(newValue)
    \/ RemoveFile
    \/ DescriptionChange

ContainerInit == FormInit /\ apiConfig = Config(None, None)

ContainerSpec == ContainerInit /\ [][ContainerNext]_vars

-----------------------------------------------------------------------------
(* The form with the microphone: SpeechToTextButton inside VisionTextarea, *)
(* and the browser's events on the recognition instances.                  *)

\* What an onresult event led to: the text reported, whether onTranscript was
\* called, the value and transcript handleSpeechTranscript was given, and the
\* recognition instance the event came from.
HistResult(id, event) ==
    LET full == fullTranscript(InitialTranscript(id), event)
        called == CallsOnTranscript(event)
        handled == called /\ Trim(full) /= <<>>
    IN  [hist EXCEPT !.op = IF handled THEN "speech" ELSE "result",
                     !.v0 = Some(store.vision),
                     !.arg = Some([event |-> event,
                                   reported |-> full,
                                   called |-> called,
                                   value |-> recognitions[id].value,
                                   orphan |-> recognitions[id].orphan,
                                   session |-> id])]

\* A click on the microphone button: handleClick calls toggleListening().
ToggleMic ==
    /\ ChildrenShown
    /\ speech.isSupported
    /\ speech.isListening \/ speech.created < MaxSessions
    /\ toggleListening(<<>>, store.vision)
    /\ hist' = HistOther
    /\ UNCHANGED <<mounted, apiConfig, store, previousVision, isLoading, error,
                   previousVisionRef, ai, filesVars, clientVars>>

SpeechUntouched ==
    UNCHANGED <<mounted, apiConfig, previousVision, isLoading, error,
                previousVisionRef, ai, filesVars, clientVars>>

OnStart ==
    \E id \in DOMAIN recognitions :
        /\ recognitions[id].phase = "starting"
        /\ onstart(id)
        /\ recognitions' = [recognitions EXCEPT ![id].phase = "recognizing"]
        /\ hist' = HistOther
        /\ UNCHANGED store
        /\ SpeechUntouched

\* A stopped recognition may still deliver the result of the audio it has.
OnResultOf(events) ==
    \E id \in DOMAIN recognitions :
        /\ recognitions[id].phase \in {"recognizing", "stopping"}
        /\ \E event \in events :
               /\ onresult(id, event)
               /\ hist' = HistResult(id, event)
        /\ UNCHANGED recognitions
        /\ SpeechUntouched

OnResult == OnResultOf(SpeechEvents)

\* An error event; the end event follows it.
OnError ==
    \E id \in DOMAIN recognitions :
        /\ recognitions[id].phase \in Active \cup {"aborting"}
        /\ onerror(id)
        /\ recognitions' = [recognitions EXCEPT ![id].phase = "errored"]
        /\ hist' = HistOther
        /\ UNCHANGED store
        /\ SpeechUntouched

OnEnd ==
    \E id \in DOMAIN recognitions :
        /\ recognitions[id].phase \in {"recognizing", "stopping", "aborting", "errored"}
        /\ onend(id)
        /\ recognitions' = [i \in DOMAIN recognitions \ {id} |-> recognitions[i]]
        /\ hist' = HistOther
        /\ UNCHANGED store
        /\ SpeechUntouched

SpeechTyped == { <<"K", "a">>, <<"K", "a", "b", "a">> }

SpeechNext ==
    \/ Mount(None)
    \/ \E enabled \in BOOLEAN : handleTrustSquadChange(enabled)
    \/ \E t \in SpeechTyped : TextChange(t)
    \/ ToggleMic
    \/ OnStart
    \/ OnResult
    \/ OnError
    \/ OnEnd

SpeechInit ==
    /\ mounted = FALSE
    /\ StateInit
    /\ speech \in { HookState(isSupported, 0) : isSupported \in BOOLEAN }
    /\ apiConfig = Config(None, None)

SpeechSpec == SpeechInit /\ [][SpeechNext]_vars

-----------------------------------------------------------------------------
(* useSpeechRecognition called directly: start, stop, toggle with a seed    *)
(* text and resetTranscript, its onTranscript being the form's.             *)

SeedTexts == { <<>>, <<"a">> }

HookEvents ==
    { SpeechEvent(<<Segment(FALSE, <<"b">>)>>, 0),
      SpeechEvent(<<Segment(TRUE, <<"b">>)>>, 0) }

HookUnchanged ==
    UNCHANGED <<mounted, apiConfig, store, previousVision, isLoading, error,
                previousVisionRef, ai, filesVars, clientVars>>

HookStart ==
    /\ speech.created < MaxSessions
    /\ startListening(speech, store.vision)
    /\ hist' = HistOther
    /\ HookUnchanged

HookStop ==
    /\ stopListening
    /\ hist' = HistOther
    /\ HookUnchanged

HookToggle ==
    /\ speech.isListening \/ speech.created < MaxSessions
    /\ \E seedText \in SeedTexts : toggleListening(seedText, store.vision)
    /\ hist' = HistOther
    /\ HookUnchanged

HookResetTranscript ==
    /\ resetTranscript
    /\ hist' = HistStore("resetTranscript")
    /\ HookUnchanged

HookNext ==
    \/ HookStart
    \/ HookStop
    \/ HookToggle
    \/ HookResetTranscript
    \/ OnStart
    \/ OnResultOf(HookEvents)
    \/ OnError
    \/ OnEnd

HookInit ==
    /\ mounted = TRUE
    /\ StateInit
    /\ speech \in { HookState(isSupported, 0) : isSupported \in BOOLEAN }
    /\ apiConfig = Config(None, None)

HookSpec == HookInit /\ [][HookNext]_vars

-----------------------------------------------------------------------------
(* The store's three operations called with any argument *)

StoreStates ==
    { [trustSquad |-> t, vision |-> v, uploadedFiles |-> SeedFiles(n),
       fileDescriptions |-> m] :
        t \in BOOLEAN, v \in {<<>>, <<"a">>}, n \in {0, 1},
        m \in { EmptyMap, [k \in {SeedFile("s1").id} |-> "d"],
                [k \in {SeedFile("s2").id} |-> "d"] } }

\* Partial<CreativeDirectionState>: some of the fields of a state.
Partials ==
    { [k \in fields |-> full[k]] :
        fields \in SUBSET {"trustSquad", "vision", "uploadedFiles", "fileDescriptions"},
        full \in StoreStates }

\* The state an operation found and the argument it was given.
HistStoreCall(op, argument) ==
    [hist EXCEPT !.op = op, !.v0 = Some(store), !.arg = Some(argument)]

Merge ==
    /\ \E updates \in Partials :
           /\ store' = updateCreativeDirectionState(store, updates)
           /\ hist' = HistStoreCall("merge", updates)
    /\ UNCHANGED <<mounted, apiConfig, visionVars, filesVars, clientVars>>

Replace ==
    /\ \E newState \in StoreStates :
           /\ store' = setCreativeDirectionState(newState)
           /\ hist' = HistStoreCall("replace", newState)
    /\ UNCHANGED <<mounted, apiConfig, visionVars, filesVars, clientVars>>

StoreNext == Merge \/ Replace \/ Reset

StoreInit == FormInit /\ apiConfig = Config(None, None)

StoreSpec == StoreInit /\ [][StoreNext]_vars

-----------------------------------------------------------------------------
(* One enhance request and one upload in flight together *)

RaceSeeds ==
    { Some([vision |-> v, uploadedFiles |-> <<SeedFile("s1")>>,
            fileDescriptions |-> [k \in {SeedFile("s1").id} |-> "d"]]) :
        v \in { <<"a">>, <<"K", "a", "b">> } }

RaceOutcomes ==
    { Rejects("Error"), Responds(TRUE, JsonObj(None, Some([vision |-> <<"b">>]))) }

\* Enhance, clicked until one request has replaced the vision.
RaceEnhance ==
    /\ ~hist.aiSeen
    /\ ai = <<>>
    /\ ClickEnhance

\* The one selection, of one file.
RaceSelect ==
    /\ clock = 0
    /\ \E newFiles \in { <<Png>>, <<Pdf>>, <<Refused>> } : FileSelect(newFiles)

RaceAiResponse ==
    \E i \in DOMAIN ai : \E o \in RaceOutcomes :
        /\ AiResolve(i, o)
        /\ UNCHANGED <<mounted, apiConfig, speech, recognitions, filesVars, clientVars>>

RaceNext ==
    \/ \E initialState \in RaceSeeds : Mount(initialState)
    \/ RaceEnhance
    \/ RaceSelect
    \/ UploadProgress
    \/ RaceAiResponse

RaceInit == FormInit /\ apiConfig = Config(Some(CustomVisionEndpoint), None)

RaceSpec == RaceInit /\ [][RaceNext]_vars

-----------------------------------------------------------------------------
(* Selections made while an earlier selection is still uploading *)

LimitSeed ==
    Some([uploadedFiles |-> <<SeedFile("s1"), SeedFile("s2"), SeedFile("s3")>>])

LimitNext ==
    \/ Mount(LimitSeed)
    \/ \E newFiles \in { <<Png, Pdf>>, <<UpperPng>> } :
           FileSelectAmong(MaxSelections, newFiles)
    \/ UploadProgress

LimitSpec == FilesInit /\ [][LimitNext]_vars

-----------------------------------------------------------------------------
(* The uploader while it stays mounted and every request is answered *)

UploadNext ==
    \/ \E initialState \in FileSeeds : Mount(initialState)
    \/ \E newFiles \in SelectionPool : FileSelect(newFiles)
    \/ UploadProgress
    \/ RemoveUploading
    \/ handleClear

\* Every FileReader and every fetch comes back: an upload under way takes
\* its next step.
UploadLiveSpec == FilesInit /\ [][UploadNext]_vars /\ WF_vars(UploadProgress)

-----------------------------------------------------------------------------
(* Properties of the vision field *)

\* C1: in every reachable state of the form the stored vision is at most
\* MAX_CHARACTERS (1400) characters long, whichever site wrote it.
C1_VisionWithinLimit == StrLen(store.vision) <= MAX_CHARACTERS

\* C3: when undo is invoked once right after an AI response replaced the
\* vision, the stored vision is again the vision that the response overwrote
\* (the one stored immediately before the replacement).
C3_UndoRestoresReplaced ==
    hist.op = "undoAfterAi" => store.vision = The(hist.v0)

IsUndoStep == hist'.op \in {"undo", "undoAfterAi"}

\* C4: every undo invocation leaves the undo slot empty, and an undo invoked
\* after another undo with no AI replacement in between changes neither the
\* stored vision nor the slot.
C4_SingleLevelUndo ==
    [][IsUndoStep =>
          /\ previousVision' = None
          /\ hist.undos >= 1 =>
                 /\ store'.vision = store.vision
                 /\ previousVision' = previousVision]_vars

\* C4 witness: a second undo was invoked after an AI replacement and a first undo.
C4_Witness ==
    /\ hist.aiSeen
    /\ hist.undos = 2
    /\ hist.op = "undo"

-----------------------------------------------------------------------------
(* Properties of the upload and creative-vision clients *)

\* uploadFile(file) run on its own, from its first suspension point to its result.
RECURSIVE UploadRun(_, _)
UploadRun(file, phase) ==
    LET st == uploadFile(phase, Outcome(file, phase))
    IN  IF st.phase = "settled" THEN The(st.result) ELSE UploadRun(file, st.phase)

UploadAlone(file) == UploadRun(file, "encoding")

\* A file whose encoding, request or response fails.
FailsResponse(o) ==
    \/ o.fetch /= "response"
    \/ ~o.ok
    \/ o.body.parse \in {"fail", "null"}

FailsUpload(file) ==
    file.script.encoding = "failed" \/ FailsResponse(file.script.response)

IsErrorResult(r) ==
    /\ r.settled = "resolved"
    /\ r.data = None
    /\ r.error /= None
    /\ The(r.error) /= ""

\* C6: when uploadFiles returns, it returns one result per input file,
\* result i being the one uploadFile gives for files[i] on its own, also
\* when other files of the batch failed.
C6_OneResultPerFile ==
    (batch /= None /\ The(batch).returned /= "pending") =>
        LET b == The(batch)
        IN  /\ b.returned = "returned"
            /\ Len(b.results) = Len(b.files)
            /\ \A i \in DOMAIN b.files : b.results[i] = UploadAlone(b.files[i])

C6_Witness ==
    /\ batch /= None
    /\ The(batch).returned = "returned"
    /\ Len(The(batch).files) = 3
    /\ Len(The(batch).results) = 3
    /\ The(batch).results[1].error = None
    /\ The(batch).results[2].error /= None
    /\ The(batch).results[3].error = None

\* C7: within one uploadFiles call at most one upload is in flight, an
\* upload has started only when every earlier one has settled, and the
\* requests and the progress callbacks come in input-index order.
C7_StrictlySequential ==
    batch /= None =>
        LET b == The(batch)
        IN  /\ Cardinality({ i \in DOMAIN b.files : b.phases[i] \in InFlightPhases }) <= 1
            /\ \A i \in DOMAIN b.files :
                   b.phases[i] /= "pending" =>
                       \A j \in 1..(i - 1) : b.phases[j] = "settled"
            /\ \A k \in 1..(Len(b.progress) - 1) :
                   b.progress[k][1] <= b.progress[k + 1][1]
            /\ \A k \in 1..(Len(b.fetched) - 1) : b.fetched[k] < b.fetched[k + 1]
            /\ \A k \in DOMAIN b.progress :
                   \A j \in 1..(b.progress[k][1] - 1) : b.phases[j] = "settled"

C7_Witness ==
    /\ batch /= None
    /\ Len(The(batch).files) = 3
    /\ The(batch).phases[3] = "parsing"
    /\ The(batch).fetched = <<1, 2, 3>>
    /\ \E k \in DOMAIN The(batch).progress : The(batch).progress[k] = <<1, 100>>
    /\ \E k \in DOMAIN The(batch).progress : The(batch).progress[k] = <<3, 90>>

\* C8: uploadFile and generateCreativeVision never reject; a failed
\* encoding, a rejected fetch, a non-2xx status or an unreadable body
\* resolves to data = null with a non-empty error.
C8_NeverRejects ==
    /\ batch /= None =>
           LET b == The(batch)
           IN  /\ b.returned /= "rejected"
               /\ \A i \in DOMAIN b.files : b.phases[i] = "settled" =>
                      /\ i \in DOMAIN b.results
                      /\ b.results[i].settled = "resolved"
                      /\ FailsUpload(b.files[i]) => IsErrorResult(b.results[i])
    /\ (net /= None /\ IsSome(The(net).result)) =>
           LET r == The(The(net).result)
           IN  /\ r.settled = "resolved"
               /\ FailsResponse(The(The(net).outcome)) => IsErrorResult(r)

C8_Witness ==
    /\ batch /= None
    /\ The(batch).returned = "returned"
    /\ Len(The(batch).files) = 3
    /\ The(batch).files[1].script.encoding = "failed"
    /\ The(batch).files[2].script.response.fetch = "Error"
    /\ ~The(batch).files[3].script.response.ok
    /\ \A i \in 1..3 : IsErrorResult(The(batch).results[i])

Unconfigured(config) == config.creativeVisionEndpoint = None

\* C9, as stated: a feelingLucky call with no creativeVisionEndpoint
\* configured hands nothing to fetch and has an error result.
C9_NoCallWhenUnconfigured ==
    (net /= None /\ The(net).fn = "feelingLucky" /\ Unconfigured(The(net).config)) =>
        /\ The(net).request = None
        /\ IsSome(The(net).result)
        /\ The(The(net).result).error /= None

\* C9, amended: the hook's handleFeelingLucky with no creativeVisionEndpoint
\* configured sets the error "Creative vision endpoint not configured" and
\* starts no request, while the service function feelingLucky called with
\* such a config posts to the default endpoint.
C9_HookGuardsServiceFallsBack ==
    [][/\ (hist'.op = "lucky" /\ Unconfigured(apiConfig)) =>
              /\ error' = Some("Creative vision endpoint not configured")
              /\ ai' = ai
              /\ isLoading' = isLoading
              /\ store' = store
       /\ (net' /= None /\ The(net').fn = "feelingLucky"
                        /\ Unconfigured(The(net').config)) =>
              /\ The(net').request /= None
              /\ The(The(net').request).endpoint = DEFAULT_VISION_ENDPOINT]_vars

C9_Witness ==
    /\ hist.op = "lucky"
    /\ Unconfigured(apiConfig)
    /\ error = Some("Creative vision endpoint not configured")
    /\ ai = <<>>
    /\ ~isLoading

-----------------------------------------------------------------------------
(* Properties of the reference files *)

\* C2: the keys of fileDescriptions are ids of uploadedFiles.
C2_NoOrphanDescriptions ==
    DOMAIN store.fileDescriptions \subseteq Ids(store.uploadedFiles)

ClaimedExtensions ==
    {"jpg", "jpeg", "png", "gif", "webp", "svg", "pdf", "doc", "docx", "psd", "ai", "eps"}

\* The text after the last dot of the name, letter case aside.
HasClaimedExtension(name) ==
    /\ Len(name) >= 2
    /\ name[Len(name) - 1] = "."
    /\ \/ name[Len(name)] \in ClaimedExtensions
       \/ name[Len(name)] = "PNG"

LargerThan2GiB(size) == size[1] > 2 \/ (size[1] = 2 /\ size[2] > 0)

\* C5: every upload handed to fetch is of a file with an allowed extension
\* and of at most 2 GiB, from a selection that together with the files
\* present when it was made does not exceed 5.
C5_OnlyValidatedUploads ==
    \A r \in issued :
        /\ HasClaimedExtension(r.name)
        /\ ~LargerThan2GiB(r.size)
        /\ r.present + r.selected <= 5

C5_Witness ==
    /\ Alert("type", Exe.name) \in alerts
    /\ Alert("type", PngExe.name) \in alerts
    /\ Alert("size", TooBig.name) \in alerts
    /\ Alert("count", <<>>) \in alerts
    /\ \E r \in issued : r.name = UpperPng.name /\ r.present + r.selected = 5
    /\ \A r \in issued : r.name \notin {Exe.name, PngExe.name, TooBig.name}

-----------------------------------------------------------------------------
(* Properties of the container and the store *)

Defaults ==
    [trustSquad |-> FALSE, vision |-> <<>>, uploadedFiles |-> <<>>,
     fileDescriptions |-> [k \in {} |-> <<>>]]

\* C11: a trust toggle leaves vision, uploadedFiles and fileDescriptions as
\* they were and changes no other part of the stored state's shape.
C11_ToggleChangesTrustOnly ==
    [][hist'.op = "trust" =>
          /\ DOMAIN store' = DOMAIN store
          /\ store'.vision = store.vision
          /\ store'.uploadedFiles = store.uploadedFiles
          /\ store'.fileDescriptions = store.fileDescriptions]_vars

C11_Witness ==
    /\ hist.op = "trust"
    /\ store.trustSquad
    /\ store.vision = <<"a">>
    /\ Len(store.uploadedFiles) = 5
    /\ DOMAIN store.fileDescriptions /= {}

\* C12: canContinue is true exactly when the disable flag is unset and trust
\* is delegated, or the vision has a non-blank character, or a file is uploaded.
C12_CanContinue ==
    \A isContinueDisabled \in BOOLEAN :
        canContinue(isContinueDisabled) <=>
            /\ ~isContinueDisabled
            /\ \/ store.trustSquad
               \/ \E i \in DOMAIN store.vision : store.vision[i] /= "sp"
               \/ Len(store.uploadedFiles) >= 1

C12_Witness ==
    /\ store.trustSquad
    /\ store.vision = <<"sp">>
    /\ store.uploadedFiles = <<>>
    /\ canContinue(FALSE)
    /\ ~canContinue(TRUE)

\* C13: Clear leaves the store holding exactly the defaults.
C13_ClearRestoresDefaults ==
    [][hist'.op = "clear" => store' = Defaults]_vars

C13_Witness ==
    /\ hist.op = "clear"
    /\ hist.v0 = Some(<<"a">>)
    /\ store = Defaults

\* C14: reset leaves the defaults, and a reset right after a reset leaves
\* the state the first one left.
C14_ResetIdempotent ==
    [][hist'.op = "reset" =>
          /\ store' = Defaults
          /\ hist'.arg /= None => store' = store]_vars

C14_Witness ==
    /\ hist.op = "reset"
    /\ hist.arg /= None
    /\ store = Defaults

\* C16: uploadedFiles has at most 5 elements.
C16_AtMostFiveFiles == Len(store.uploadedFiles) <= 5


(* Properties of the microphone *)

\* The text a rejected or accepted write was about: the typed text, or the
\* captured value joined with the reported transcript by one blank.
AttemptedLength(h) ==
    IF h.op = "typed"
    THEN StrLen(The(h.arg))
    ELSE IF h.op = "speech"
    THEN StrLen(The(h.arg).value)
         + (IF The(h.arg).value /= <<>> THEN 1 ELSE 0)
         + StrLen(The(h.arg).reported)
    ELSE 0

\* C15: a typed edit or a speech append whose resulting text would be longer
\* than 1400 characters leaves the store as it was: nothing of it is stored.
C15_OverLimitRejectedWhole ==
    [][AttemptedLength(hist') > 1400 => store' = store]_vars

C15_Witness ==
    /\ hist.op = "speech"
    /\ The(hist.arg).value = <<"K", "a">>
    /\ The(hist.arg).reported = <<"a">>
    /\ AttemptedLength(hist) = 1401
    /\ store.vision = <<"K", "a">>

TrackedRecognizes ==
    IF speech.recognitionRef /= None
    THEN /\ The(speech.recognitionRef) \in DOMAIN recognitions
         /\ recognitions[The(speech.recognitionRef)].phase = "recognizing"
    ELSE FALSE

\* C17: isListening is true while the recognition the hook tracks in
\* recognitionRef is recognizing.
C17_ListeningWhileTrackedRecognizes == TrackedRecognizes => speech.isListening

IsResultStep == hist.op \in {"speech", "result"}

HasFinalSegment(event) ==
    \E i \in (event.resultIndex + 1)..Len(event.results) : event.results[i].isFinal

InterimOnly(event) ==
    \A i \in 1..Len(event.results) : ~event.results[i].isFinal

\* C18: onTranscript is called only for an event with a finalized result; an
\* event of interim results only sets the reported transcript, calls nothing
\* and leaves the store alone.
C18_CallbackOnlyOnFinal ==
    IF IsResultStep
    THEN /\ The(hist.arg).called => HasFinalSegment(The(hist.arg).event)
         /\ InterimOnly(The(hist.arg).event) =>
                /\ ~The(hist.arg).called
                /\ hist.op = "result"
                /\ store.vision = The(hist.v0)
                /\ ~The(hist.arg).orphan =>
                       /\ speech.transcript = The(hist.arg).reported
                       /\ speech.transcript /= <<>>
    ELSE TRUE

C18_Witness ==
    /\ IsResultStep
    /\ InterimOnly(The(hist.arg).event)
    /\ ~The(hist.arg).orphan
    /\ speech.transcript = <<"a">>
    /\ store.vision = <<"K", "a">>

\* C19: after the unmount no recognition of the unmounted hook is still
\* active, and no result of one reaches onTranscript.
C19_TeardownAbortsAll ==
    /\ \A id \in DOMAIN recognitions :
           recognitions[id].orphan => recognitions[id].phase \notin Active
    /\ IF IsResultStep
       THEN ~(The(hist.arg).orphan /\ The(hist.arg).called)
       ELSE TRUE

\* C20: once a speech append has changed the vision from V0 to V0 joined with
\* the transcript, the undo slot holds V0.
C20_SpeechAppendSetsUndo ==
    IF hist.op = "speech"
    THEN (/\ ~The(hist.arg).orphan
          /\ The(hist.arg).value = The(hist.v0)
          /\ store.vision /= The(hist.v0))
         => previousVision = hist.v0
    ELSE TRUE


(* Properties of the last group of claims *)

\* The progress values uploadFiles handed on for files[i], in order.
ProgressOf(b, i) ==
    LET own == SelectSeq(b.progress, LAMBDA e : e[1] = i)
    IN  [k \in 1..Len(own) |-> own[k][2]]

IsPrefix(s, t) == Len(s) <= Len(t) /\ \A k \in 1..Len(s) : s[k] = t[k]

\* C21: the progress values of one upload are a prefix of <<10, 90, 100>>;
\* 10 comes with the request, 90 needs a response, 100 a success response,
\* and an upload that gave an error result has not reported 100.
C21_ProgressPrefix ==
    batch /= None =>
        \A i \in DOMAIN The(batch).files :
            LET b == The(batch)
                ps == ProgressOf(b, i)
                response == b.files[i].script.response
            IN  /\ IsPrefix(ps, <<10, 90, 100>>)
                /\ Len(ps) >= 1 <=> (\E k \in DOMAIN b.fetched : b.fetched[k] = i)
                /\ Len(ps) >= 2 => response.fetch = "response"
                /\ Len(ps) >= 3 => response.ok
                /\ (i <= Len(b.results) /\ b.results[i].error /= None) => Len(ps) < 3

\* C22: after a merge every field named in the partial has the value
\* supplied and every other field has the value the store held at the call.
C22_MergeIsShallow ==
    hist.op = "merge" =>
        /\ DOMAIN store = DOMAIN The(hist.v0)
        /\ \A field \in DOMAIN store :
               store[field] = IF field \in DOMAIN The(hist.arg)
                              THEN The(hist.arg)[field]
                              ELSE The(hist.v0)[field]

C22_Witness ==
    /\ hist.op = "merge"
    /\ DOMAIN The(hist.arg) = {"fileDescriptions"}
    /\ DOMAIN The(hist.v0).fileDescriptions = {SeedFile("s1").id}
    /\ DOMAIN store.fileDescriptions = {SeedFile("s2").id}
    /\ store.vision = <<"a">>
    /\ Len(store.uploadedFiles) = 1

\* Both the enhance request and the upload have been applied.
RaceDone ==
    /\ hist.aiSeen
    /\ ai = <<>>
    /\ clock > 0
    /\ selections = <<>>
    /\ uploadingFiles = EmptyMap

\* C23: the completion of the enhance request leaves the files and their
\* descriptions alone, a step of the upload leaves the vision alone, and once
\* both have been applied the store holds the returned vision and the seeded
\* file followed by the new one.
C23_RaceCorruptsNothing ==
    /\ [][Len(ai') < Len(ai) =>
             /\ store'.uploadedFiles = store.uploadedFiles
             /\ store'.fileDescriptions = store.fileDescriptions]_vars
    /\ [][(selections /= <<>> /\ selections' /= selections) =>
             store'.vision = store.vision]_vars
    /\ [](RaceDone =>
             /\ store.vision = <<"b">>
             /\ Len(store.uploadedFiles) = 2
             /\ store.uploadedFiles[1] = SeedFile("s1")
             /\ store.uploadedFiles[2].id[1] > 0
             /\ store.fileDescriptions = [k \in {SeedFile("s1").id} |-> "d"])

\* The upload was answered while the enhance request was still out.
C23_Witness ==
    /\ RaceDone
    /\ hist.op = "ai"
    /\ store.uploadedFiles[2].filename = <<"brief", ".", "pdf">>

\* C24: a successful upload whose invocation's list is still at the front
\* of uploadedFiles (nothing of it was removed) adds its file at the end of
\* the list as it is, so the successes of a selection follow one another.
C24_EverySuccessPromoted ==
    [][(hist'.op = "uploaded"
        /\ IsPrefix(The(hist'.arg).files, store.uploadedFiles)) =>
           /\ Len(store'.uploadedFiles) = Len(store.uploadedFiles) + 1
           /\ IsPrefix(store.uploadedFiles, store'.uploadedFiles)
           /\ store'.uploadedFiles[Len(store'.uploadedFiles)].id
                  = The(hist'.arg).fileId]_vars

\* C28: the completion of an upload adds its own file only: every file in the
\* list afterwards was in it before or is the new one.
C28_RemovedStaysRemoved ==
    [][hist'.op = "uploaded" =>
          \A i \in DOMAIN store'.uploadedFiles :
              \/ store'.uploadedFiles[i].id = The(hist'.arg).fileId
              \/ store'.uploadedFiles[i].id \in Ids(store.uploadedFiles)]_vars

\* The files of the selections under way that are uploading or will be.
Pending ==
    UNION { { <<k, i>> : i \in { j \in DOMAIN selections[k].queue :
                                     Validates(selections[k].queue[j]) } } :
            k \in DOMAIN selections }

\* C29: the files uploaded and the files uploading or queued for upload are
\* never more than 5 together.
C29_LimitCountsInFlight ==
    Len(store.uploadedFiles) + Cardinality(Pending) <= 5

NoneUploading ==
    \A fileId \in DOMAIN uploadingFiles : ~uploadingFiles[fileId].uploading

\* C25: an entry starts as progress 0, uploading; an entry that has stopped
\* uploading carries an error, keeps it, and goes only when it is dismissed;
\* and no entry stays uploading forever.
C25_EntriesSettle ==
    /\ [][\A fileId \in DOMAIN uploadingFiles' \ DOMAIN uploadingFiles :
              uploadingFiles'[fileId] = FileUploadState(0, TRUE, None)]_vars
    /\ [][\A fileId \in DOMAIN uploadingFiles :
              ~uploadingFiles[fileId].uploading =>
                  /\ uploadingFiles[fileId].error /= None
                  /\ IF fileId \in DOMAIN uploadingFiles'
                     THEN uploadingFiles'[fileId] = uploadingFiles[fileId]
                     ELSE hist'.op = "dismiss" /\ hist'.arg = Some(fileId)]_vars
    /\ []<>NoneUploading

\* An upload has failed and its entry is waiting to be dismissed while the
\* next file of the selection uploads.
C25_Witness ==
    \E failed, next \in DOMAIN uploadingFiles :
        /\ ~uploadingFiles[failed].uploading
        /\ uploadingFiles[failed].error = Some("File rejected")
        /\ uploadingFiles[next].uploading
        /\ uploadingFiles[next].progress = 90

\* The recognition in recognitionRef is between its start() and its end.
TrackedActive ==
    IF speech.recognitionRef /= None
    THEN /\ The(speech.recognitionRef) \in DOMAIN recognitions
         /\ recognitions[The(speech.recognitionRef)].phase \in Active
    ELSE FALSE

\* C26: the end event of a session started before the one the hook tracks,
\* arriving while the tracked session is active, leaves the prefix of the
\* tracked session and the listening flag as they are.
C26_PrefixKeptForSession ==
    [][\A id \in DOMAIN recognitions :
          (/\ id \notin DOMAIN recognitions'
           /\ TrackedActive /\ TrackedActive'
           /\ speech'.recognitionRef = speech.recognitionRef
           /\ id < The(speech.recognitionRef)) =>
              /\ speech'.initialTranscriptRef = speech.initialTranscriptRef
              /\ speech'.isListening = speech.isListening]_vars

\* Two onresult events of one mounted session in a row, each handed to
\* handleSpeechTranscript, the first one stored after the text the session
\* started with.
TwoFinalsInARow ==
    /\ hist.op = "speech" /\ hist'.op = "speech"
    /\ The(hist.arg).session = The(hist'.arg).session
    /\ ~The(hist'.arg).orphan
    /\ store.vision = appended(The(hist.arg).value, The(hist.arg).reported)

\* C27: when a session delivers the final segments s1 and then s2 with no
\* other edit in between and the result fits the limit, the vision is the
\* text of the session's start followed by s1 and then s2.
C27_FinalsAccumulate ==
    [][(/\ TwoFinalsInARow
        /\ StrLen(appended(store.vision, The(hist'.arg).reported)) <= MAX_CHARACTERS) =>
           store'.vision = appended(appended(The(hist.arg).value, The(hist.arg).reported),
                                    The(hist'.arg).reported)]_vars

\* The step is the completion of a request whose component is still mounted.
AiCompletes ==
    \E i \in DOMAIN ai : ai' = RemoveAt(ai, i) /\ ~ai[i].orphan

\* C30: a generate or enhance request that completes either replaces the
\* vision and sets the undo slot, or leaves both as they are and sets an
\* error message; in both cases the loading flag is false afterwards.
C30_ChangeOrError ==
    [][AiCompletes =>
          /\ \/ /\ hist'.op = "ai"
                /\ store'.vision \in AiTexts
                /\ IsSome(previousVision')
             \/ /\ store'.vision = store.vision
                /\ previousVision' = previousVision
                /\ IsSome(error')
          /\ ~isLoading']_vars

=============================================================================
